---- MODULE Spec2Model ----
(***************************************************************************)
(* Model of mailpile/crypto/keyinfo.py: get_keyinfo() walking a decoded    *)
(* OpenPGP packet list and building KeyInfo / KeyUID objects, followed by  *)
(* the derivation loop (synthesize_validity, add_subkey_capabilities,      *)
(* ensure_autocrypt_uid).                                                  *)
(*                                                                         *)
(* Objects.  A KeyInfo is a record; the list `results` owns the top-level  *)
(* keys and each key owns its `subkeys` list.  KeyUID objects live in      *)
(* `heap` and the `uids` lists hold object ids (indices into heap), since  *)
(* get_keyinfo can put one KeyUID object into several lists.  `last_key`   *)
(* is the reference the loop keeps: a path into results, or a reference to *)
(* an object that is in no list (the dummy, or a subkey whose append       *)
(* failed), which is held in `orphan`.                                     *)
(*                                                                         *)
(* Pass-through attributes that no statement reads back (keytype_name,     *)
(* keytype_code, keysize, on_keychain) are not carried.  The field `pkt`   *)
(* of a key or uid is the position in the stream of the packet that built  *)
(* it and the field `from` of a key is that packet's class; both are       *)
(* bookkeeping of the model, not attributes of the code.                   *)
(***************************************************************************)
EXTENDS Naturals, Integers, Sequences, FiniteSets, TLC

\* ---------------------------------------------------------------- bounds
MaxPackets == 3
MaxSubpackets == 2
MaxRepeat == 1

\* ------------------------------------------------------ program constants
DaySeconds == 24 * 3600
SubtypeKeyExpiration == 9
SubtypeKeyFlags == 27
FlagCertify == 1
FlagSign == 2
FlagEncrypt == 12
FlagAuth == 32

\* --------------------------------------------------------- input domains
\* Unset: a numeric attribute the decoder left at None (raw_creation_time) or
\* does not provide (raw_days_valid of an older decoder).  "Absent": a string
\* attribute the packet object lacks.
Unset == 0 - 1
Absent == "Absent"

Fingerprints == {Absent, "F1"}
CreationTimes == {Unset, 100}
DaysValid == {Unset, 0, 1}
Emails == {"a@x", "b@x"}
SigTimes == {Unset, 200}
\* subpacket payloads are byte strings
ExpirationData == {<<0, 0, 0, 0>>, <<0, 0, 1, 44>>, <<0, 0>>}
FlagsData == {<<2>>, <<12>>}
OtherSubtypes == {2}
NowTimes == {86500}
LaterTimes == {100000}
\* The now a caller of a KeyInfo method passes: none, 0, or a time of its own.
CallerNows == {Unset, 0} \cup LaterTimes
\* What the decoder can raise on an input it fails on; it is no part of this
\* source, so ValueError stands for every class line 202 does not name.
DecodeErrors == {"TypeError", "IndexError", "PgpdumpException", "ValueError"}

Subpackets ==
    [subtype : {SubtypeKeyExpiration}, data : ExpirationData]
    \cup [subtype : {SubtypeKeyFlags}, data : FlagsData]
    \cup [subtype : OtherSubtypes, data : {<<>>}]

SeqsUpTo(S, n) == UNION {[1..k -> S] : k \in 0..n}

PublicKeyPackets ==
    [tag : {"PublicKeyPacket", "PublicSubkeyPacket"}, fingerprint : Fingerprints,
     raw_creation_time : CreationTimes, raw_days_valid : DaysValid]
UserIDPackets == [tag : {"UserIDPacket"}, user_name : {"N"}, user_email : Emails]
SignaturePackets ==
    [tag : {"SignaturePacket"}, raw_creation_time : SigTimes,
     subpackets : SeqsUpTo(Subpackets, MaxSubpackets)]
OtherPackets == [tag : {"OtherPacket"}]
Packets == PublicKeyPackets \cup UserIDPackets \cup SignaturePackets \cup OtherPackets

\* `given` is the truth value of the autocrypt_header argument (None and {} are
\* false); a header that is given may lack the key 'addr'.
AutocryptHeaders ==
    {[given |-> FALSE, addr |-> ""], [given |-> TRUE, addr |-> "a@x"],
     [given |-> TRUE, addr |-> Absent]}

\* ------------------------------------------------------------ the state
VARIABLES
    pc,          \* "decode", "packets", "derive", "done": position in get_keyinfo
    outcome,     \* "running", "returned", "raised": how the call ended
    results,     \* the list of top-level KeyInfo
    heap,        \* the KeyUID objects, by object id
    orphan,      \* the KeyInfo last_key refers to when it is in no list
    last_key,    \* reference: [kind, i, j]
    last_uid,    \* object id of last_uid, 0 for the dummy
    n,           \* packets consumed so far
    exc,         \* exception raised while processing the last packet ("none" if none)
    decode_exc,  \* exception raised by the packet decoder ("none" if none)
    autocrypt_uid, \* object id of the synthesized KeyUID, 0 for None
    now,         \* the reference time of the derivation loop, 0 before it
    idx,         \* derivation loop: index of the next key of results
    repeats,     \* method calls made by the caller on the returned keys
    raised_at    \* where the exception that ended the call was raised: "none",
                 \* "decode" (lines 197-200), "packets" (214-257), "header" (264-266)

vars == <<pc, outcome, results, heap, orphan, last_key, last_uid, n, exc,
          decode_exc, autocrypt_uid, now, idx, repeats, raised_at>>

\* ----------------------------------------------------------- the objects
KeyUID(name, email, comment, pkt) ==
    [name |-> name, email |-> email, comment |-> comment, pkt |-> pkt]

KeyInfo(fingerprint, pkt, tag) ==
    [fingerprint |-> fingerprint, capabilities |-> <<>>, created |-> 0,
     expires |-> 0, validity |-> "?", uids |-> <<>>, subkeys |-> <<>>,
     is_subkey |-> FALSE, pkt |-> pkt, from |-> tag]

DummyKey == KeyInfo("MISSING", 0, "Dummy")

Detached == [kind |-> "detached", i |-> 0, j |-> 0]
TopRef(i) == [kind |-> "top", i |-> i, j |-> 0]
SubRef(i, j) == [kind |-> "sub", i |-> i, j |-> j]

\* The parser state threaded through one packet.
ParserState == [results |-> results, heap |-> heap, orphan |-> orphan,
                last_key |-> last_key, last_uid |-> last_uid]

Deref(st, ref) ==
    CASE ref.kind = "top" -> st.results[ref.i]
      [] ref.kind = "sub" -> st.results[ref.i].subkeys[ref.j]
      [] OTHER -> st.orphan

Store(st, ref, key) ==
    CASE ref.kind = "top" -> [st EXCEPT !.results[ref.i] = key]
      [] ref.kind = "sub" -> [st EXCEPT !.results[ref.i].subkeys[ref.j] = key]
      [] OTHER -> [st EXCEPT !.orphan = key]

Ok(st) == [st |-> st, exc |-> "none"]
Raise(st, e) == [st |-> st, exc |-> e]

\* ------------------------------------------------------------- helpers
RECURSIVE BitAnd(_, _)
BitAnd(a, b) ==
    IF a = 0 \/ b = 0 THEN 0
    ELSE 2 * BitAnd(a \div 2, b \div 2) + (IF a % 2 = 1 /\ b % 2 = 1 THEN 1 ELSE 0)

Range(s) == {s[i] : i \in 1..Len(s)}

\* All orders in which the elements of a set can be iterated.
Orders(S) == {f \in [1..Cardinality(S) -> S] : \A a, b \in 1..Cardinality(S) : f[a] = f[b] => a = b}

\* Code point of the characters a capabilities string can hold.
Ord(c) ==
    CASE c = "+" -> 43
      [] c = "a" -> 97
      [] c = "c" -> 99
      [] c = "e" -> 101
      [] c = "s" -> 115

\* sorted(list(S)) for a set of characters.
RECURSIVE Sorted(_)
Sorted(S) ==
    IF S = {} THEN <<>>
    ELSE LET m == CHOOSE x \in S : \A y \in S : Ord(x) <= Ord(y)
         IN <<m>> \o Sorted(S \ {m})

\* ------------------------------------------------- get_keyinfo: the loop

\* _unixtime(packet, seconds, days), for a packet whose raw_creation_time is set
_unixtime(packet, seconds, days) ==
    packet.raw_creation_time + days * DaySeconds + seconds

\* pgpdump.utils.get_int4(data, 0): four bytes, big endian
get_int4(data) ==
    data[1] * 16777216 + data[2] * 65536 + data[3] * 256 + data[4]

\* Faulty variant: an except clause that misses IndexError
CaughtPacketErrors_NoIndexError ==
    {"TypeError", "AttributeError", "KeyError", "NameError"}

\* The exceptions the except clause of the packet loop catches.
CaughtPacketErrors ==
    {"TypeError", "AttributeError", "KeyError", "IndexError", "NameError"}

\* The exceptions the except clause around the decoder catches.
CaughtDecodeErrors == {"TypeError", "IndexError", "PgpdumpException"}

\* Faulty variant: every new key is appended to results, subkeys too
AttachKey_AllTopLevel(st, m, key) ==
    LET k == IF m.tag = "PublicSubkeyPacket" THEN [key EXCEPT !.is_subkey = TRUE] ELSE key
    IN Ok([st EXCEPT !.results = Append(@, k), !.last_key = TopRef(Len(st.results) + 1)])

\* Faulty variant: a primary key is put at the head of results
AttachKey_Prepend(st, m, key) ==
    IF m.tag = "PublicSubkeyPacket"
    THEN LET sub == [key EXCEPT !.is_subkey = TRUE]
             top == Len(st.results)
         IN IF top = 0
            THEN Raise([st EXCEPT !.orphan = sub, !.last_key = Detached], "IndexError")
            ELSE Ok([st EXCEPT
                       !.results[top].subkeys = Append(@, sub),
                       !.last_key = SubRef(top, Len(st.results[top].subkeys) + 1)])
    ELSE Ok([st EXCEPT !.results = <<key>> \o @, !.last_key = TopRef(1)])

\* Where a new key goes: a subkey to the subkeys of results[-1], a primary key
\* to results.  last_key already refers to the new object when the append runs.
AttachKey(st, m, key) ==
    IF m.tag = "PublicSubkeyPacket"
    THEN LET sub == [key EXCEPT !.is_subkey = TRUE]
             top == Len(st.results)
         IN IF top = 0
            THEN Raise([st EXCEPT !.orphan = sub, !.last_key = Detached], "IndexError")
            ELSE Ok([st EXCEPT
                       !.results[top].subkeys = Append(@, sub),
                       !.last_key = SubRef(top, Len(st.results[top].subkeys) + 1)])
    ELSE Ok([st EXCEPT !.results = Append(@, key),
                       !.last_key = TopRef(Len(st.results) + 1)])

\* created and expires of the key just built, from the packet.
SetKeyTimes(st, m) ==
    IF m.raw_creation_time = Unset THEN Raise(st, "TypeError")
    ELSE LET k1 == [Deref(st, st.last_key) EXCEPT !.created = _unixtime(m, 0, 0)]
             st1 == Store(st, st.last_key, k1)
         IN IF m.raw_days_valid = Unset THEN Raise(st1, "AttributeError")
            ELSE IF m.raw_days_valid > 0
            THEN LET e == _unixtime(m, 0, m.raw_days_valid)
                     k2 == [k1 EXCEPT !.expires = IF e = k1.created THEN 0 ELSE e]
                 IN Ok(Store(st1, st.last_key, k2))
            ELSE Ok(st1)

\* A PublicKeyPacket or PublicSubkeyPacket at position pos.
ProcessPublicKey(st, m, pos) ==
    IF m.fingerprint = Absent THEN Raise(st, "AttributeError")
    ELSE LET a == AttachKey(st, m, KeyInfo(m.fingerprint, pos, m.tag))
         IN IF a.exc # "none" THEN a ELSE SetKeyTimes(a.st, m)

\* The key a UserIDPacket's KeyUID is appended to.
UidTarget(st) == st.last_key

\* A UserIDPacket at position pos (results is not empty).
ProcessUserID(st, m, pos) ==
    LET oid == Len(st.heap) + 1
        st1 == [st EXCEPT !.heap = Append(@, KeyUID(m.user_name, m.user_email, "", pos)),
                          !.last_uid = oid]
        key == Deref(st1, UidTarget(st1))
    IN Ok(Store(st1, UidTarget(st1), [key EXCEPT !.uids = Append(@, oid)]))

\* Faulty variant: every nonzero candidate replaces expires
AdoptExpiry_AnyNonzero(exp, expires) == 0 < exp

\* Faulty variant: only a key that has no expiry takes a candidate
AdoptExpiry_FirstWins(exp, expires) == 0 = expires

\* The condition under which a key-expiration candidate replaces expires.
AdoptExpiry(exp, expires) == (0 < exp /\ exp < expires) \/ 0 = expires

\* Subpacket 9 of signature packet m, applied to key.
KeyExpiration(key, m, s) ==
    IF Len(s.data) < 4 THEN {[key |-> key, exc |-> "IndexError"]}
    ELSE IF m.raw_creation_time = Unset THEN {[key |-> key, exc |-> "TypeError"]}
    ELSE LET exp == _unixtime(m, get_int4(s.data), 0)
         IN {[key |-> IF AdoptExpiry(exp, key.expires)
                      THEN [key EXCEPT !.expires = exp] ELSE key,
              exc |-> "none"]}

FlagLetters ==
    <<[flag |-> FlagCertify, c |-> "c"], [flag |-> FlagSign, c |-> "s"],
      [flag |-> FlagEncrypt, c |-> "e"], [flag |-> FlagAuth, c |-> "a"]>>

\* The letters of a key-flags byte.
FlagCaps(byte) ==
    {FlagLetters[i].c : i \in {i \in 1..Len(FlagLetters) : BitAnd(byte, FlagLetters[i].flag) # 0}}

\* Faulty variant: the letters of the subpacket replace those the key has
KeyFlags_Replace(key, s) ==
    IF Len(s.data) < 1 THEN {[key |-> key, exc |-> "IndexError"]}
    ELSE {[key |-> [key EXCEPT !.capabilities = o], exc |-> "none"] :
             o \in Orders(FlagCaps(s.data[1]))}

\* Subpacket 27, applied to key.  ''.join(caps) writes the set in its iteration
\* order, which the language leaves open: every order is an outcome.
KeyFlags(key, s) ==
    IF Len(s.data) < 1 THEN {[key |-> key, exc |-> "IndexError"]}
    ELSE LET caps == Range(key.capabilities) \cup FlagCaps(s.data[1])
         IN {[key |-> [key EXCEPT !.capabilities = o], exc |-> "none"] : o \in Orders(caps)}

\* Faulty variant: a fault in a subpacket undoes the subpackets applied before it
RECURSIVE RollbackFrom(_, _, _, _)
RollbackFrom(orig, key, m, i) ==
    IF i > Len(m.subpackets) THEN {[key |-> key, exc |-> "none"]}
    ELSE LET s == m.subpackets[i]
             step == CASE s.subtype = SubtypeKeyExpiration -> KeyExpiration(key, m, s)
                       [] s.subtype = SubtypeKeyFlags -> KeyFlags(key, s)
                       [] OTHER -> {[key |-> key, exc |-> "none"]}
         IN UNION {IF r.exc = "none" THEN RollbackFrom(orig, r.key, m, i + 1)
                   ELSE {[key |-> orig, exc |-> r.exc]} : r \in step}

ApplySubpackets_Rollback(key, m, i) == RollbackFrom(key, key, m, i)

\* The subpackets of m from the i-th on, applied to key: the outcomes.
RECURSIVE ApplySubpackets(_, _, _)
ApplySubpackets(key, m, i) ==
    IF i > Len(m.subpackets) THEN {[key |-> key, exc |-> "none"]}
    ELSE LET s == m.subpackets[i]
             step == CASE s.subtype = SubtypeKeyExpiration -> KeyExpiration(key, m, s)
                       [] s.subtype = SubtypeKeyFlags -> KeyFlags(key, s)
                       [] OTHER -> {[key |-> key, exc |-> "none"]}
         IN UNION {IF r.exc = "none" THEN ApplySubpackets(r.key, m, i + 1) ELSE {r} : r \in step}

\* Faulty variant: the signatures after a subkey packet bind to its primary key
SigTarget_Primary(st) ==
    IF st.last_key.kind = "sub" THEN TopRef(st.last_key.i) ELSE st.last_key

\* The key a SignaturePacket's subpackets are applied to.
SigTarget(st) == st.last_key

\* A SignaturePacket (results is not empty): the outcomes.
ProcessSignature(st, m) ==
    {[st |-> Store(st, SigTarget(st), r.key), exc |-> r.exc] :
        r \in ApplySubpackets(Deref(st, SigTarget(st)), m, 1)}

\* Faulty variant: user-ID and signature packets are processed before any key
ProcessPacket_NoGuard(st, m, pos) ==
    CASE m.tag \in {"PublicKeyPacket", "PublicSubkeyPacket"} -> {ProcessPublicKey(st, m, pos)}
      [] m.tag = "UserIDPacket" -> {ProcessUserID(st, m, pos)}
      [] m.tag = "SignaturePacket" -> ProcessSignature(st, m)
      [] OTHER -> {Ok(st)}

\* One iteration of the packet loop: the outcomes.
ProcessPacket(st, m, pos) ==
    CASE m.tag \in {"PublicKeyPacket", "PublicSubkeyPacket"} -> {ProcessPublicKey(st, m, pos)}
      [] m.tag = "UserIDPacket" /\ st.results # <<>> -> {ProcessUserID(st, m, pos)}
      [] m.tag = "SignaturePacket" /\ st.results # <<>> -> ProcessSignature(st, m)
      [] OTHER -> {Ok(st)}

\* --------------------------------------------------- the KeyInfo methods

\* KeyInfo.expired and KeyInfo.is_usable, read when time.time() is clock
expired(key, clock) == clock > key.expires /\ key.expires > 0

is_usable(key, clock) == key.validity \in {"", "?"} /\ ~expired(key, clock)

\* now or time.time(): a now that is None (Unset) or 0 gives way to the clock,
\* which is read only then.
NowOrClock(t, clock) == IF t = Unset \/ t = 0 THEN clock ELSE t

\* Faulty variant: a key that expires exactly at the reference time counts as
\* expired
synthesize_validity_Inclusive(key, t, clock) ==
    LET now_ == NowOrClock(t, clock)
    IN IF 0 < key.expires /\ key.expires <= now_ /\ key.validity \in {"", "?"}
       THEN [key EXCEPT !.validity = "e"]
       ELSE key

\* KeyInfo.synthesize_validity(now=t), called when time.time() is clock
synthesize_validity(key, t, clock) ==
    LET now_ == NowOrClock(t, clock)
    IN IF 0 < key.expires /\ key.expires < now_ /\ key.validity \in {"", "?"}
       THEN [key EXCEPT !.validity = "e"]
       ELSE key

\* capabilities.split('+')[0]
RECURSIVE BeforePlus(_)
BeforePlus(caps) ==
    IF caps = <<>> \/ Head(caps) = "+" THEN <<>>
    ELSE <<Head(caps)>> \o BeforePlus(Tail(caps))

\* Faulty variant: the letters of expired subkeys are collected too
CountedSubkey_All(subkey, t) == TRUE

\* The subkeys whose letters add_subkey_capabilities collects, t being its
\* reference time.
CountedSubkey(subkey, t) == ~(0 < subkey.expires /\ subkey.expires < t)

\* Faulty variant: the whole capabilities string is taken as the base
add_subkey_capabilities_NoSplit(key, t, clock) ==
    LET now_ == NowOrClock(t, clock)
        subkey_caps ==
            UNION {Range(key.subkeys[j].capabilities) :
                     j \in {j \in 1..Len(key.subkeys) : CountedSubkey(key.subkeys[j], now_)}}
    IN IF subkey_caps # {}
       THEN [key EXCEPT !.capabilities = @ \o <<"+">> \o Sorted(subkey_caps)]
       ELSE key

\* KeyInfo.add_subkey_capabilities(now=t), called when time.time() is clock
add_subkey_capabilities(key, t, clock) ==
    LET now_ == NowOrClock(t, clock)
        subkey_caps ==
            UNION {Range(key.subkeys[j].capabilities) :
                     j \in {j \in 1..Len(key.subkeys) : CountedSubkey(key.subkeys[j], now_)}}
    IN IF subkey_caps # {}
       THEN [key EXCEPT !.capabilities = BeforePlus(@) \o <<"+">> \o Sorted(subkey_caps)]
       ELSE key

\* The loop of ensure_autocrypt_uid over uids[i..]: the heap after it and the
\* number of uids found.
RECURSIVE AnnotateMatches(_, _, _, _)
AnnotateMatches(h, uids, ac, i) ==
    IF i > Len(uids) THEN [heap |-> h, found |-> 0]
    ELSE LET oid == uids[i]
             hit == h[oid].email = h[ac].email
             h1 == IF hit THEN [h EXCEPT ![oid].comment = @ \o "(Autocrypt)"] ELSE h
             rest == AnnotateMatches(h1, uids, ac, i + 1)
         IN [heap |-> rest.heap, found |-> rest.found + (IF hit THEN 1 ELSE 0)]

\* Faulty variant: ac_uid is appended whether or not an email matched
ensure_autocrypt_uid_AlwaysAppend(key, h, ac) ==
    IF key.is_subkey THEN [key |-> key, heap |-> h]
    ELSE [key |-> [key EXCEPT !.uids = Append(@, ac)],
          heap |-> AnnotateMatches(h, key.uids, ac, 1).heap]

\* Faulty variant: ac_uid is never appended
ensure_autocrypt_uid_NeverAppend(key, h, ac) ==
    IF key.is_subkey THEN [key |-> key, heap |-> h]
    ELSE [key |-> key, heap |-> AnnotateMatches(h, key.uids, ac, 1).heap]

\* KeyInfo.ensure_autocrypt_uid(ac_uid), ac the object id of ac_uid: the key
\* and the heap after it.
ensure_autocrypt_uid(key, h, ac) ==
    IF key.is_subkey THEN [key |-> key, heap |-> h]
    ELSE LET r == AnnotateMatches(h, key.uids, ac, 1)
         IN [key |-> IF r.found = 0 THEN [key EXCEPT !.uids = Append(@, ac)] ELSE key,
             heap |-> r.heap]

\* ------------------------------------------------------------- actions
Init ==
    /\ pc = "decode"
    /\ outcome = "running"
    /\ results = <<>>
    /\ heap = <<>>
    /\ orphan = DummyKey
    /\ last_key = Detached
    /\ last_uid = 0
    /\ n = 0
    /\ exc = "none"
    /\ decode_exc = "none"
    /\ autocrypt_uid = 0
    /\ now = 0
    /\ idx = 0
    /\ repeats = 0
    /\ raised_at = "none"

\* The decoder returns the packet list.
DecodeOk ==
    /\ pc = "decode"
    /\ pc' = "packets"
    /\ UNCHANGED <<outcome, results, heap, orphan, last_key, last_uid, n, exc,
                   decode_exc, autocrypt_uid, now, idx, repeats, raised_at>>

\* The decoder raises e: get_keyinfo returns [] when the except clause has it.
DecodeFail ==
    /\ pc = "decode"
    /\ \E e \in DecodeErrors :
          /\ decode_exc' = e
          /\ outcome' = IF e \in CaughtDecodeErrors THEN "returned" ELSE "raised"
          /\ raised_at' = IF e \in CaughtDecodeErrors THEN "none" ELSE "decode"
    /\ pc' = "done"
    /\ UNCHANGED <<results, heap, orphan, last_key, last_uid, n, exc,
                   autocrypt_uid, now, idx, repeats>>

\* One iteration of `for m in packets`, for the next packet m.
LoopStep(m) ==
    /\ pc = "packets"
    /\ n < MaxPackets
    /\ \E out \in ProcessPacket(ParserState, m, n + 1) :
          /\ results' = out.st.results
          /\ heap' = out.st.heap
          /\ orphan' = out.st.orphan
          /\ last_key' = out.st.last_key
          /\ last_uid' = out.st.last_uid
          /\ exc' = out.exc
          /\ IF out.exc = "none" \/ out.exc \in CaughtPacketErrors
             THEN pc' = pc /\ outcome' = outcome /\ raised_at' = raised_at
             ELSE pc' = "done" /\ outcome' = "raised" /\ raised_at' = "packets"
    /\ n' = n + 1
    /\ UNCHANGED <<decode_exc, autocrypt_uid, now, idx, repeats>>

PublicKeyStep == \E m \in PublicKeyPackets : LoopStep(m)
UserIDStep == \E m \in UserIDPackets : LoopStep(m)
SignatureStep == \E m \in SignaturePackets : LoopStep(m)
OtherStep == \E m \in OtherPackets : LoopStep(m)

\* The packet list is exhausted: the autocrypt KeyUID is built and now is read.
\* autocrypt_header['addr'] raises KeyError for a header without that key; no
\* try is around it, so the call ends there.
EndOfStream ==
    /\ pc = "packets"
    /\ \E h \in AutocryptHeaders, t \in NowTimes :
          IF h.given /\ h.addr = Absent
          THEN /\ pc' = "done" /\ outcome' = "raised" /\ raised_at' = "header"
               /\ UNCHANGED <<heap, autocrypt_uid, now, idx>>
          ELSE /\ IF h.given
                  THEN /\ heap' = Append(heap, KeyUID("", h.addr, "Autocrypt", 0))
                       /\ autocrypt_uid' = Len(heap) + 1
                  ELSE /\ heap' = heap
                       /\ autocrypt_uid' = 0
               /\ now' = t
               /\ idx' = 1
               /\ pc' = "derive"
               /\ UNCHANGED <<outcome, raised_at>>
    /\ UNCHANGED <<results, orphan, last_key, last_uid, n, exc, decode_exc, repeats>>

\* One iteration of `for keyinfo in results`.
DeriveKey ==
    /\ pc = "derive"
    /\ idx <= Len(results)
    /\ LET k1 == synthesize_validity(results[idx], now, now)
           k2 == add_subkey_capabilities(k1, now, now)
           r == IF autocrypt_uid # 0
                THEN ensure_autocrypt_uid(k2, heap, autocrypt_uid)
                ELSE [key |-> k2, heap |-> heap]
       IN /\ results' = [results EXCEPT ![idx] = r.key]
          /\ heap' = r.heap
    /\ idx' = idx + 1
    /\ UNCHANGED <<pc, outcome, orphan, last_key, last_uid, n, exc, decode_exc,
                   autocrypt_uid, now, repeats, raised_at>>

Return ==
    /\ pc = "derive"
    /\ idx > Len(results)
    /\ pc' = "done"
    /\ outcome' = "returned"
    /\ UNCHANGED <<results, heap, orphan, last_key, last_uid, n, exc, decode_exc,
                   autocrypt_uid, now, idx, repeats, raised_at>>

\* The keys reachable from a list of top-level keys, as references.
Refs(res) ==
    {TopRef(i) : i \in 1..Len(res)}
    \cup UNION {{SubRef(i, j) : j \in 1..Len(res[i].subkeys)} : i \in 1..Len(res)}

KeyAt(res, ref) ==
    IF ref.kind = "top" THEN res[ref.i] ELSE res[ref.i].subkeys[ref.j]

ReturnedRefs == Refs(results)

\* The caller merges the same identity claim into a returned key once more.
CallerEnsureAutocryptUid ==
    /\ pc = "done" /\ outcome = "returned"
    /\ repeats < MaxRepeat
    /\ autocrypt_uid # 0
    /\ \E ref \in ReturnedRefs :
          LET st == ParserState
              r == ensure_autocrypt_uid(Deref(st, ref), heap, autocrypt_uid)
          IN /\ results' = Store(st, ref, r.key).results
             /\ heap' = r.heap
    /\ repeats' = repeats + 1
    /\ UNCHANGED <<pc, outcome, orphan, last_key, last_uid, n, exc, decode_exc,
                   autocrypt_uid, now, idx, raised_at>>

\* The caller runs the subkey inheritance on a returned key once more.
CallerAddSubkeyCapabilities ==
    /\ pc = "done" /\ outcome = "returned"
    /\ repeats < MaxRepeat
    /\ \E i \in 1..Len(results), clock \in LaterTimes :
          results' = [results EXCEPT ![i] = add_subkey_capabilities(@, now, clock)]
    /\ repeats' = repeats + 1
    /\ UNCHANGED <<pc, outcome, heap, orphan, last_key, last_uid, n, exc, decode_exc,
                   autocrypt_uid, now, idx, raised_at>>

\* The caller runs the validity synthesis on a returned key once more.
CallerSynthesizeValidity ==
    /\ pc = "done" /\ outcome = "returned"
    /\ repeats < MaxRepeat
    /\ \E i \in 1..Len(results), t \in CallerNows, clock \in LaterTimes :
          results' = [results EXCEPT ![i] = synthesize_validity(@, t, clock)]
    /\ repeats' = repeats + 1
    /\ UNCHANGED <<pc, outcome, heap, orphan, last_key, last_uid, n, exc, decode_exc,
                   autocrypt_uid, now, idx, raised_at>>

Next ==
    \/ DecodeOk
    \/ DecodeFail
    \/ PublicKeyStep
    \/ UserIDStep
    \/ SignatureStep
    \/ OtherStep
    \/ EndOfStream
    \/ DeriveKey
    \/ Return
    \/ CallerEnsureAutocryptUid
    \/ CallerAddSubkeyCapabilities
    \/ CallerSynthesizeValidity

Spec == Init /\ [][Next]_vars

\* =================================================================
\* The claims
\* =================================================================
TopKeys == {results[i] : i \in 1..Len(results)}
SubKeysOf(key) == {key.subkeys[j] : j \in 1..Len(key.subkeys)}
Returned == pc = "done" /\ outcome = "returned"

\* C1: every element of the top-level list has is_subkey = false, every
\* element of a key's subkeys list has is_subkey = true, and no key built
\* from a public-subkey packet is in the top-level list.
C1_SubkeysNeverTopLevel ==
    \A key \in TopKeys :
        /\ key.is_subkey = FALSE
        /\ key.from = "PublicKeyPacket"
        /\ \A sub \in SubKeysOf(key) :
              sub.is_subkey = TRUE /\ sub.from = "PublicSubkeyPacket"

\* C1 witness: a returned list of two primary keys, one of them with a subkey.
C1_Witness ==
    /\ Returned
    /\ Len(results) = 2
    /\ \E key \in TopKeys : Len(key.subkeys) = 1

\* C2 (as claimed): a user-ID packet processed after a primary key was seen
\* appends its KeyUID to the uids of the current top-level key, results[-1],
\* also when last_key is a subkey; a key with is_subkey = true never owns uids
\* or subkeys.
C2_UidsGoToPrimary ==
    /\ [][(n' = n + 1 /\ Len(heap') = Len(heap) + 1) =>
            results'[Len(results)].uids = Append(results[Len(results)].uids, Len(heap'))]_vars
    /\ [](\A key \in TopKeys : \A sub \in SubKeysOf(key) :
            sub.uids = <<>> /\ sub.subkeys = <<>>)

C4_DecodeFailureReturnsEmpty ==
    /\ decode_exc # "none" => (Returned /\ results = <<>> /\ n = 0)
    /\ outcome # "raised"

\* A signature packet holding one well-formed key-expiration subpacket.
SingleExpirySigs ==
    [tag : {"SignaturePacket"}, raw_creation_time : SigTimes \ {Unset},
     subpackets : {<<sp>> : sp \in [subtype : {SubtypeKeyExpiration},
                                    data : {d \in ExpirationData : Len(d) = 4}]}]

InLoop == pc = "packets" /\ n < MaxPackets

\* C5: for a current key with expires = T > 0, a key-expiration candidate
\* T' > T leaves expires = T and a candidate 0 < T' < T sets expires = T';
\* over all steps, once a key's expires is nonzero it never increases and
\* never returns to 0.
C5_ExpiryOnlyTightens ==
    /\ [][\A ref \in Refs(results) :
            KeyAt(results, ref).expires > 0 =>
                /\ KeyAt(results', ref).expires > 0
                /\ KeyAt(results', ref).expires <= KeyAt(results, ref).expires]_vars
    /\ []((InLoop /\ results # <<>>) =>
            \A m \in SingleExpirySigs : \A out \in ProcessSignature(ParserState, m) :
               LET T == KeyAt(results, last_key).expires
                   cand == _unixtime(m, get_int4(m.subpackets[1].data), 0)
                   new == KeyAt(out.st.results, last_key).expires
               IN T > 0 => /\ cand > T => new = T
                           /\ (0 < cand /\ cand < T) => new = cand)

\* C5 witness: a key created at 100 whose expiry a signature has set to 200,
\* below both the expiry of its validity days (86500) and the other candidate.
C5_Witness ==
    /\ pc = "packets" /\ exc = "none" /\ n >= 2
    /\ \E key \in TopKeys : key.created = 100 /\ key.expires = 200

\* C6 (as claimed): when processing of a packet faults, the model after the
\* packet equals the model before it.
C6_FaultLeavesNoTrace ==
    [][(n' = n + 1 /\ exc' # "none") => (results' = results /\ heap' = heap)]_vars

\* The key last_key refers to after the step is new, holds nothing but what a
\* public-key packet assigns before it can fault, and is the only change.
FaultedKeyAppended ==
    /\ last_key' # last_key
    /\ last_key'.kind # "detached"
    /\ LET new == KeyAt(results', last_key')
       IN /\ new.uids = <<>> /\ new.subkeys = <<>> /\ new.capabilities = <<>>
          /\ new.expires = 0 /\ new.validity = "?"
          /\ IF last_key'.kind = "top"
             THEN results' = Append(results, new)
             ELSE /\ results # <<>>
                  /\ results' = [results EXCEPT ![Len(results)].subkeys = Append(@, new)]

\* The step changed nothing but expires and capabilities of the current key.
CurrentKeyPartlyUpdated ==
    /\ last_key' = last_key
    /\ last_key.kind # "detached"
    /\ LET old == KeyAt(results, last_key)
           new == KeyAt(results', last_key)
           st == Store(ParserState, last_key,
                       [old EXCEPT !.expires = new.expires, !.capabilities = new.capabilities])
       IN results' = st.results

\* A signature packet whose second subpacket is a truncated key-expiration.
FaultOnSecondSigs ==
    [tag : {"SignaturePacket"}, raw_creation_time : SigTimes,
     subpackets : {<<sp, bad>> : sp \in Subpackets,
                   bad \in [subtype : {SubtypeKeyExpiration},
                            data : {d \in ExpirationData : Len(d) < 4}]}]

\* C6 (amended): a packet that faults keeps what it did before the faulting
\* statement and changes nothing else: no KeyUID changes, and the list is
\* unchanged, or has gained the key of the faulting public-key packet, or
\* differs in expires/capabilities of the current key; a signature packet
\* faulting on its second subpacket leaves exactly the first one applied.
C6_FaultKeepsPartialState ==
    /\ [][(n' = n + 1 /\ exc' # "none") =>
            /\ heap' = heap
            /\ \/ results' = results
               \/ FaultedKeyAppended
               \/ CurrentKeyPartlyUpdated]_vars
    /\ []((InLoop /\ results # <<>>) =>
            \A m \in FaultOnSecondSigs :
               LET first == [m EXCEPT !.subpackets = SubSeq(@, 1, 1)]
                   alone == ProcessSignature(ParserState, first)
               IN \A out \in ProcessSignature(ParserState, m) :
                     out.exc # "none" /\ \E o \in alone : o.st = out.st)

\* C6 witness: the last packet faulted and left its key, created unassigned,
\* at the end of the list.
C6_Witness ==
    /\ pc = "packets" /\ exc = "TypeError"
    /\ results # <<>> /\ last_key = TopRef(Len(results))
    /\ results[Len(results)].created = 0 /\ results[Len(results)].pkt = n

\* The uids of key whose email is e.
UidsWithEmail(key, h, e) == {x \in 1..Len(key.uids) : h[key.uids[x]].email = e}

CallerStep == pc = "done" /\ repeats' = repeats + 1

\* C7: merging the same email into a returned key again adds no UID: every
\* uids list is unchanged, and the only change to a KeyUID is "(Autocrypt)"
\* appended to the comment of one whose email is the merged email.
C7_MergeDuplicateSafe ==
    [][CallerStep =>
         /\ \A ref \in Refs(results) :
               KeyAt(results', ref).uids = KeyAt(results, ref).uids
         /\ Len(heap') = Len(heap)
         /\ \A oid \in 1..Len(heap) :
               \/ heap'[oid] = heap[oid]
               \/ /\ autocrypt_uid # 0
                  /\ heap[oid].email = heap[autocrypt_uid].email
                  /\ heap'[oid] = [heap[oid] EXCEPT !.comment = @ \o "(Autocrypt)"]]_vars

\* C7 witness: a KeyUID of the stream annotated by get_keyinfo and again by the
\* caller's merge.
C7_Witness ==
    /\ Returned /\ repeats = 1
    /\ \E key \in TopKeys : \E x \in 1..Len(key.uids) :
          heap[key.uids[x]].comment = "(Autocrypt)(Autocrypt)"

DeriveStep == pc = "derive" /\ idx' = idx + 1

\* C8: in the derivation loop with an identity claim, a key none of whose UIDs
\* has the claim's email gains exactly one UID, with that email and the
\* comment "Autocrypt"; a key with a matching UID keeps its UID count; the
\* subkeys and their KeyUIDs are not changed.
C8_MergeOnNoMatch ==
    [][(DeriveStep /\ autocrypt_uid # 0) =>
         LET old == results[idx]
             new == results'[idx]
             e == heap[autocrypt_uid].email
         IN /\ UidsWithEmail(old, heap, e) = {} =>
                  /\ Len(new.uids) = Len(old.uids) + 1
                  /\ SubSeq(new.uids, 1, Len(old.uids)) = old.uids
                  /\ heap'[new.uids[Len(new.uids)]].email = e
                  /\ heap'[new.uids[Len(new.uids)]].comment = "Autocrypt"
            /\ UidsWithEmail(old, heap, e) # {} => Len(new.uids) = Len(old.uids)
            /\ new.subkeys = old.subkeys
            /\ \A sub \in SubKeysOf(old) : \A x \in 1..Len(sub.uids) :
                  heap'[sub.uids[x]] = heap[sub.uids[x]]]_vars

\* C8 witness: a returned key whose only own UID has another email and which
\* got the synthesized KeyUID appended.
C8_Witness ==
    /\ Returned /\ repeats = 0 /\ autocrypt_uid # 0
    /\ \E key \in TopKeys :
          /\ Len(key.uids) = 2
          /\ heap[key.uids[1]].email = "b@x"
          /\ key.uids[2] = autocrypt_uid

PlusCount(caps) == Cardinality({x \in 1..Len(caps) : caps[x] = "+"})
NoDuplicates(caps) == \A x, y \in 1..Len(caps) : caps[x] = caps[y] => x = y
AfterPlus(caps) == SubSeq(caps, Len(BeforePlus(caps)) + 2, Len(caps))

\* C9: running add_subkey_capabilities again on a returned key, with the same
\* now, leaves its capabilities as they were; a capabilities string has at
\* most one '+', and no letter twice after it.
C9_InheritanceIdempotent ==
    /\ [][CallerStep =>
            \A i \in 1..Len(results) :
               /\ results'[i].capabilities = results[i].capabilities
               /\ add_subkey_capabilities(results'[i], now, now).capabilities
                     = results'[i].capabilities]_vars
    /\ [](\A key \in TopKeys :
            PlusCount(key.capabilities) <= 1 /\ NoDuplicates(AfterPlus(key.capabilities)))

\* C9 witness: the caller has run a method again on a returned key whose
\* capabilities hold a merged segment.
C9_Witness ==
    /\ Returned /\ repeats = 1
    /\ \E key \in TopKeys : key.capabilities = <<"+", "s">>

\* C10: after the derivation loop with reference time now, a top-level key
\* with 0 < expires < now has validity 'e' and is not usable, a key with
\* expires = 0 or expires >= now has kept the default validity; no step
\* changes a validity that is not the default.
C10_ValiditySynthesis ==
    /\ []((Returned /\ repeats = 0) =>
            \A key \in TopKeys :
               /\ (0 < key.expires /\ key.expires < now) =>
                     /\ key.validity = "e"
                     /\ \A t \in NowTimes \cup LaterTimes : ~is_usable(key, t)
               /\ (key.expires = 0 \/ key.expires >= now) => key.validity = "?")
    /\ [][\A i \in 1..Len(results) :
            results[i].validity \notin {"", "?"} =>
               results'[i].validity = results[i].validity]_vars

\* C10 witness: a returned list with an expired key marked 'e' and a key
\* expiring exactly at now left at the default.
C10_Witness ==
    /\ Returned /\ repeats = 0
    /\ \E key \in TopKeys : key.expires = 200 /\ key.validity = "e"
    /\ \E key \in TopKeys : key.expires = now /\ key.validity = "?"

\* The positions of the packets that built the keys of a list.
KeyPositions(keys) == [x \in 1..Len(keys) |-> keys[x].pkt]
\* The positions of the packets that built the KeyUIDs of a uids list; the
\* KeyUID synthesized from the identity claim has position 0.
UidPositions(uids) == [x \in 1..Len(uids) |-> heap[uids[x]].pkt]
Increasing(ps) == \A x, y \in 1..Len(ps) : x < y => ps[x] < ps[y]
\* Increasing, but for a last entry that comes from no packet.
IncreasingUids(ps) ==
    \A x, y \in 1..Len(ps) : x < y => (ps[x] # 0 /\ (ps[y] # 0 => ps[x] < ps[y]))

\* C11: the top-level keys are in the order of their public-key packets, the
\* subkeys of a key are in the order of their packets, which lie after the
\* key's packet and before the next top-level key's, and every uids list is
\* in the order of the user-ID packets that built its entries.
C11_EncounterOrder ==
    /\ Increasing(KeyPositions(results))
    /\ \A i \in 1..Len(results) :
          /\ Increasing(<<results[i].pkt>> \o KeyPositions(results[i].subkeys))
          /\ i < Len(results) =>
                \A sub \in SubKeysOf(results[i]) : sub.pkt < results[i + 1].pkt
    /\ \A ref \in Refs(results) : IncreasingUids(UidPositions(KeyAt(results, ref).uids))

\* C11 witness: a returned list of two keys, the first with a KeyUID of the
\* stream.
C11_Witness ==
    /\ Returned
    /\ Len(results) = 2
    /\ Len(results[1].uids) >= 1 /\ heap[results[1].uids[1]].pkt = 2

\* The KeyUID objects in the uids lists of a top-level key and of its subkeys.
OwnedUids(key) ==
    Range(key.uids) \cup UNION {Range(sub.uids) : sub \in SubKeysOf(key)}

\* C12: no KeyUID object is in the uids lists of two top-level keys, the one
\* made from the identity claim included, and no subkey (the key of one
\* packet) is in the subkeys lists of two top-level keys.
C12_ExclusiveOwnership ==
    \A i, j \in 1..Len(results) :
        i # j => /\ OwnedUids(results[i]) \cap OwnedUids(results[j]) = {}
                 /\ \A a \in SubKeysOf(results[i]), b \in SubKeysOf(results[j]) :
                       a.pkt # b.pkt

\* A signature packet holding one well-formed key-expiration subpacket of
\* duration zero.
ZeroDurationSigs ==
    {m \in SingleExpirySigs : get_int4(m.subpackets[1].data) = 0}

\* C13: the candidate expiry a key-expiration subpacket offers to the current
\* key is the key's created time plus the duration of the subpacket: after
\* the signature packet the key's expires is that candidate where the
\* adoption rule takes it, and its previous value otherwise.
C13_CandidateFromKeyCreation ==
    (InLoop /\ results # <<>>) =>
        \A m \in SingleExpirySigs : \A out \in ProcessSignature(ParserState, m) :
           LET key == KeyAt(results, last_key)
               cand == key.created + get_int4(m.subpackets[1].data)
               new == KeyAt(out.st.results, last_key).expires
           IN new = IF (0 < cand /\ cand < key.expires) \/ key.expires = 0
                    THEN cand ELSE key.expires

\* C14: a key-expiration subpacket of duration zero leaves the current key's
\* expires as it was, be it 0 or set.
C14_ZeroDurationNotAdopted ==
    (InLoop /\ results # <<>>) =>
        \A m \in ZeroDurationSigs : \A out \in ProcessSignature(ParserState, m) :
           KeyAt(out.st.results, last_key).expires = KeyAt(results, last_key).expires

\* A key without its subkeys, which have references of their own.
KeyFields(key) == [key EXCEPT !.subkeys = <<>>]

\* A step of the packet loop that adds no key and no KeyUID: a signature
\* packet, a packet of another class or a packet that is skipped.
NoNewObjectStep ==
    n' = n + 1 /\ heap' = heap /\ Refs(results') = Refs(results)

\* C15: a signature packet changes nothing but expires and capabilities of
\* the current key, which is the key of the latest packet that built one;
\* when that is a subkey, its primary key, every other key and every uids
\* list stay as they were.
C15_SignatureFrame ==
    [][NoNewObjectStep =>
          \A ref \in Refs(results) :
             LET old == KeyFields(KeyAt(results, ref))
                 new == KeyFields(KeyAt(results', ref))
             IN /\ new = [old EXCEPT !.expires = new.expires,
                                     !.capabilities = new.capabilities]
                /\ new # old =>
                      /\ ref = last_key
                      /\ \A other \in Refs(results) :
                            KeyAt(results, other).pkt <= old.pkt]_vars

\* C15 witness: a subkey whose expires and capabilities a signature packet
\* has set, under a primary key that has neither.
C15_Witness ==
    /\ pc = "packets" /\ last_key.kind = "sub"
    /\ \E key \in TopKeys :
          /\ key.expires = 0 /\ key.capabilities = <<>>
          /\ \E sub \in SubKeysOf(key) : sub.expires > 0 /\ sub.capabilities # <<>>

\* A signature packet holding one key-flags subpacket, for every flags byte
\* over the bits 0x01 .. 0x20.
SingleFlagsSigs ==
    [tag : {"SignaturePacket"}, raw_creation_time : SigTimes \ {Unset},
     subpackets : {<<sp>> : sp \in [subtype : {SubtypeKeyFlags},
                                    data : {<<b>> : b \in 0..63}]}]

Bit(b, k) == (b \div (2 ^ k)) % 2 = 1

\* The letters the flags byte b stands for.
LettersOfFlags(b) ==
    {l \in {"c", "s", "e", "a"} :
        \/ l = "c" /\ Bit(b, 0)
        \/ l = "s" /\ Bit(b, 1)
        \/ l = "e" /\ (Bit(b, 2) \/ Bit(b, 3))
        \/ l = "a" /\ Bit(b, 5)}

\* C16: after a key-flags subpacket with flags byte b the letters of the
\* current key's capabilities are those it had together with c for 0x01, s
\* for 0x02, e for any bit of 0x0C and a for 0x20, each letter once; over the
\* packets of the stream the letters of a key only grow.
C16_KeyFlagsAccumulate ==
    /\ [][n' = n + 1 =>
            \A ref \in Refs(results) :
               Range(KeyAt(results, ref).capabilities)
                  \subseteq Range(KeyAt(results', ref).capabilities)]_vars
    /\ []((InLoop /\ results # <<>>) =>
            \A m \in SingleFlagsSigs : \A out \in ProcessSignature(ParserState, m) :
               LET old == KeyAt(results, last_key).capabilities
                   new == KeyAt(out.st.results, last_key).capabilities
               IN /\ Range(new) = Range(old) \cup LettersOfFlags(m.subpackets[1].data[1])
                  /\ NoDuplicates(new))

\* C16 witness: a key in the loop whose letters come from two key-flags
\* subpackets, s from one and e from the other.
C16_Witness ==
    /\ pc = "packets" /\ exc = "none" /\ results # <<>>
    /\ Range(KeyAt(results, last_key).capabilities) = {"e", "s"}

\* The key a public-key packet at position pos leaves in results when nothing
\* of an earlier packet is attached to it.
FreshPrimary(key, pos) ==
    /\ key.pkt = pos /\ key.from = "PublicKeyPacket" /\ ~key.is_subkey
    /\ key.uids = <<>> /\ key.subkeys = <<>> /\ key.capabilities = <<>>

\* C17: while results is empty a packet either leaves it empty or, being a
\* public-key packet, puts its own fresh key there; it makes no KeyUID and the
\* loop goes on.  Nothing of the packets before the first top-level key is
\* in the model: every subkey and every KeyUID of the stream comes from a
\* packet after that key's.
C17_NoKeySeen ==
    /\ [][(n' = n + 1 /\ results = <<>>) =>
            /\ heap' = heap
            /\ pc' = "packets"
            /\ results' = <<>> \/ (Len(results') = 1 /\ FreshPrimary(results'[1], n'))]_vars
    /\ [](results # <<>> =>
            /\ \A key \in TopKeys : \A sub \in SubKeysOf(key) : sub.pkt > results[1].pkt
            /\ \A ref \in Refs(results) :
                  \A x \in 1..Len(KeyAt(results, ref).uids) :
                     LET p == heap[KeyAt(results, ref).uids[x]].pkt
                     IN p = 0 \/ p > results[1].pkt)

\* C17 witness: the first top-level key comes from the third packet, after a
\* subkey packet that had no key to go to, and nothing is attached to it.
C17_Witness ==
    /\ Len(results) = 1 /\ FreshPrimary(results[1], 3)
    /\ orphan.from = "PublicSubkeyPacket"

\* The letters of the subkeys of key that are not expired at t.
UnexpiredLetters(key, t) ==
    UNION {Range(sub.capabilities) :
             sub \in {sub \in SubKeysOf(key) : sub.expires = 0 \/ sub.expires >= t}}

\* nc is what C18 says add_subkey_capabilities(now=t) leaves in the
\* capabilities of key, which were oc: the part of oc before its first '+',
\* a '+', and the letters of the unexpired subkeys in ascending order; oc
\* itself when there is no such letter.
InheritedCaps(key, oc, nc, t) ==
    LET U == UnexpiredLetters(key, t)
        k == CHOOSE k \in 0..Len(oc) :
                /\ \A x \in 1..k : oc[x] # "+"
                /\ k = Len(oc) \/ oc[k + 1] = "+"
    IN IF U = {} THEN nc = oc
       ELSE /\ Len(nc) = k + 1 + Cardinality(U)
            /\ \A x \in 1..k : nc[x] = oc[x]
            /\ nc[k + 1] = "+"
            /\ {nc[x] : x \in (k + 2)..Len(nc)} = U
            /\ \A x, y \in (k + 2)..Len(nc) : x < y => Ord(nc[x]) < Ord(nc[y])

\* C18: add_subkey_capabilities(now) sets a key's capabilities to the part
\* before the first '+' of what they were, a '+' and the sorted letters of
\* the subkeys with expires = 0 or expires >= now, when those subkeys have a
\* letter, and leaves them alone when they have none; the letters of a
\* subkey with 0 < expires < now are not counted.  Checked for the call of
\* get_keyinfo on every key and for a further call on every returned key,
\* where a now that is left out or 0 stands for the time of the call.
C18_InheritedCapabilities ==
    /\ [][DeriveStep =>
            InheritedCaps(results[idx], results[idx].capabilities,
                          results'[idx].capabilities, now)]_vars
    /\ [](Returned =>
            \A i \in 1..Len(results) :
               \A t \in NowTimes \cup CallerNows, clock \in LaterTimes :
                  InheritedCaps(results[i], results[i].capabilities,
                                add_subkey_capabilities(results[i], t, clock).capabilities,
                                IF t \in {Unset, 0} THEN clock ELSE t))

\* C18 witness: a returned key without letters of its own whose subkey, not
\* expired, has the letters s and e.
C18_Witness ==
    /\ Returned /\ repeats = 0
    /\ \E key \in TopKeys :
          /\ key.capabilities = <<"+", "e", "s">>
          /\ \E sub \in SubKeysOf(key) : sub.expires = 0

\* The step appends a KeyUID to the key at ref or changes its expires or its
\* capabilities.
Attributed(ref) ==
    LET old == KeyAt(results, ref)
        new == KeyAt(results', ref)
    IN \/ new.uids # old.uids
       \/ new.expires # old.expires
       \/ new.capabilities # old.capabilities

\* The packet just processed was a public-key or public-subkey packet that
\* faulted: AttributeError comes from those packets only.
KeyPacketFaulted == n > 0 /\ exc = "AttributeError"

\* C19: what a user-ID or signature packet adds goes to the key built from
\* the nearest public-key or public-subkey packet before it: the key it goes
\* to is the latest built, and when the packet just before was a key packet
\* that faulted, before or after its key was made, it is the key of that
\* packet and no earlier one.
C19_AttributionToNearestKeyPacket ==
    [][n' = n + 1 =>
          \A ref \in Refs(results) :
             Attributed(ref) =>
                /\ \A other \in Refs(results) :
                      KeyAt(results, other).pkt <= KeyAt(results, ref).pkt
                /\ KeyPacketFaulted => KeyAt(results, ref).pkt = n]_vars

\* The least nonzero value of a set of times, 0 when it has none.
MinNonzero(S) ==
    IF S \ {0} = {} THEN 0
    ELSE CHOOSE x \in S \ {0} : \A y \in S \ {0} : x <= y

\* The values expires of the current key can have after signature packet m1
\* and then signature packet m2.
ExpiresAfter(m1, m2) ==
    {KeyAt(o2.st.results, last_key).expires :
        o2 \in UNION {ProcessSignature(o1.st, m2) :
                        o1 \in ProcessSignature(ParserState, m1)}}

\* C20: two key-expiration candidates, brought by two signature packets,
\* leave the current key with the same expires in either order: the least
\* nonzero value among the expires it had and the candidates, 0 when none.
C20_ExpiryOrderIndependent ==
    (InLoop /\ results # <<>>) =>
        \A m1, m2 \in SingleExpirySigs :
           LET c1 == _unixtime(m1, get_int4(m1.subpackets[1].data), 0)
               c2 == _unixtime(m2, get_int4(m2.subpackets[1].data), 0)
               least == MinNonzero({KeyAt(results, last_key).expires, c1, c2})
           IN ExpiresAfter(m1, m2) = {least} /\ ExpiresAfter(m2, m1) = {least}

\* C20 witness: a current key whose expires a first candidate has set to
\* 500, which lies between the candidates that follow.
C20_Witness ==
    /\ InLoop /\ results # <<>>
    /\ KeyAt(results, last_key).expires = 500
    /\ \E m \in SingleExpirySigs : _unixtime(m, get_int4(m.subpackets[1].data), 0) = 200
====
